---- MODULE Spec2Model ----
(***************************************************************************)
(* Model of src/main.py: a FastAPI authentication service backed by one   *)
(* sqlite table `users`, argon2 password hashes (pwdlib) and HS256 JWTs.  *)
(*                                                                         *)
(* Worker processes share the database file.  Inside one worker the async *)
(* handlers contain no await, so a handler runs to its end before the     *)
(* worker takes the next request; between workers the unit of atomicity   *)
(* is one SQL statement (one sqlite3 connection block).                    *)
(***************************************************************************)
EXTENDS Integers, Sequences, FiniteSets, TLC

(* ------------------------------ bounds -------------------------------- *)
\* The clock (minutes) stops advancing at MaxTime.
MaxTime == 30
\* At most MaxTokens distinct tokens are ever issued.
MaxTokens == 2

(* ------------------------- program constants -------------------------- *)
SECRET_KEY == "09d25e094faa6ca2556c818166b7a9563b93f7099f6f0f4caa6cf63b88e8d3e7"
ALGORITHM == "HS256"
ACCESS_TOKEN_EXPIRE_MINUTES == 30
\* timedelta(minutes=15) of create_access_token's else branch
DEFAULT_EXPIRE_MINUTES == 15

(* ----------------------------- input sets ----------------------------- *)
\* Python None / SQL NULL for the optional string fields.
None == "<None>"
\* The worker processes started on the same DB_PATH.
Procs == {"w1", "w2"}
Usernames == {"johndoe", "alice"}
Passwords == {"secret", "dummypassword"}
\* The passwords a /token form may carry: those, and the empty one.
LoginPasswords == Passwords \cup {""}
\* The salts the hasher may draw.
Salts == {"s1", "s2"}
\* The (full_name, email) pairs a UserCreate body may carry.
Profiles ==
    { [full_name |-> None, email |-> None],
      [full_name |-> "John Doe", email |-> "johndoe@example.com"] }
UserCreate ==
    [username : Usernames, password : Passwords,
     full_name : {pr.full_name : pr \in Profiles}, email : {pr.email : pr \in Profiles}]
UserCreateInputs ==
    { u \in UserCreate : [full_name |-> u.full_name, email |-> u.email] \in Profiles }
\* The expires_delta arguments of a direct create_access_token call:
\* <<>> is None, <<m>> is timedelta(minutes=m).
ExpiresDeltaInputs == { <<>>, <<0>>, <<-1>> }
\* The clock advances in steps of a quarter of an hour.
TickSteps == {DEFAULT_EXPIRE_MINUTES}

(* ------------------------------ the table ----------------------------- *)
\* Columns of CREATE TABLE users (id, the rowid, is the position in rows).
AllColumns == {"username", "full_name", "email", "hashed_password", "disabled"}
\* The order in which init_db tests for, and adds, missing columns.
MigrationOrder == <<"full_name", "email", "hashed_password", "disabled">>
\* The value ALTER TABLE ... ADD COLUMN gives the existing rows.
ColumnDefault(c) ==
    CASE c = "full_name" -> None
      [] c = "email" -> None
      [] c = "hashed_password" -> ""
      [] c = "disabled" -> 0

\* The database files a first worker may find at startup: no file, or a
\* table of an older version of the schema with one row.
LegacyColumns == {"username"}
LegacyRows == << [username |-> "alice"] >>

VARIABLES
    columns,     \* columns of table users; {} when the table does not exist
    rows,        \* the rows of users in rowid order, each a function on columns
    pc,          \* per worker: where it is in init_db / register
    todo,        \* per worker: the columns init_db found missing, still to add
    pending,     \* per worker: the UserCreate of the register call in flight
    now,         \* the UTC clock, in minutes
    issued,      \* every token create_access_token has returned (held by clients)
    registered,  \* history: the <<username, password>> pairs create_user stored
    resp         \* what the step just taken returned to its caller

vars == <<columns, rows, pc, todo, pending, now, issued, registered, resp>>

(* --------------------------- credential hasher ------------------------ *)
\* Variant of get_password_hash that stores the password as it is.
NoPlaintextHash(password, salt) == password
\* password_hash.hash: a salted one-way digest in the self-describing
\* argon2 format.  The digest is symbolic: injective in (salt, password).
get_password_hash(password, salt) == "$argon2id$" \o salt \o "$" \o password

\* The strings the hasher identifies as its own.
WellFormedHashes == { get_password_hash(p, s) : p \in Passwords, s \in Salts }

\* Variant of verify_password that compares a stored string no hasher
\* identifies with the password itself.
VerifyPlainFallback(plain_password, hashed_password) ==
    IF hashed_password \notin WellFormedHashes
    THEN IF plain_password = hashed_password THEN "True" ELSE "False"
    ELSE IF \E s \in Salts : hashed_password = get_password_hash(plain_password, s)
         THEN "True"
         ELSE "False"
\* password_hash.verify: "True" / "False", or pwdlib's UnknownHashError
\* when no hasher identifies the stored string.
verify_password(plain_password, hashed_password) ==
    IF hashed_password \notin WellFormedHashes
    THEN "UnknownHashError"
    ELSE IF \E s \in Salts : hashed_password = get_password_hash(plain_password, s)
         THEN "True"
         ELSE "False"

DUMMY_HASH == get_password_hash("dummypassword", "s1")

(* ------------------------------ user store ---------------------------- *)
\* get_user's None.
NoUser == [absent |-> TRUE]

\* UserInDB(**dict(row)); disabled INTEGER 0/1 becomes a bool.
UserInDB(row) ==
    [username |-> row.username, full_name |-> row.full_name, email |-> row.email,
     hashed_password |-> row.hashed_password, disabled |-> (row.disabled # 0)]

\* SELECT ... WHERE username = ? ... fetchone()
get_user(username) ==
    LET hits == { i \in DOMAIN rows : rows[i].username = username }
    IN  IF hits = {} THEN NoUser
        ELSE UserInDB(rows[CHOOSE i \in hits : \A j \in hits : i <= j])

\* Variant of Insert as INSERT OR REPLACE: a row with the username gives
\* way to the new one.
InsertOrReplace(row) ==
    IF \E i \in DOMAIN rows : rows[i].username = row.username
    THEN [exc |-> "",
          rows |-> [i \in DOMAIN rows |->
                      IF rows[i].username = row.username THEN row ELSE rows[i]]]
    ELSE [exc |-> "", rows |-> Append(rows, row)]
\* Variant of Insert on a table without the UNIQUE constraint.
InsertNoUnique(row) == [exc |-> "", rows |-> Append(rows, row)]
\* INSERT INTO users under the table's constraint username TEXT NOT NULL
\* UNIQUE: the new rows, or the error the statement raises.
Insert(row) ==
    IF \E i \in DOMAIN rows : rows[i].username = row.username
    THEN [exc |-> "IntegrityError", rows |-> rows]
    ELSE [exc |-> "", rows |-> Append(rows, row)]

\* create_user: hash, then INSERT ... VALUES (?, ?, ?, ?, 0) and commit.
create_user(user, salt) ==
    Insert([username |-> user.username, full_name |-> user.full_name,
            email |-> user.email,
            hashed_password |-> get_password_hash(user.password, salt),
            disabled |-> 0])

\* The UserCreate init_db seeds.
SeedUser ==
    [username |-> "johndoe", password |-> "secret",
     email |-> "johndoe@example.com", full_name |-> "John Doe"]

(* -------------------------------- output ------------------------------ *)
NoBody == [nothing |-> TRUE]
NoArg == [nothing |-> TRUE]
\* The step just taken returned nothing to a caller.
NoResp ==
    [op |-> "none", arg |-> NoArg, status |-> 0, detail |-> "", exc |-> "",
     user |-> NoUser, body |-> NoBody]
\* An HTTP response: status and detail of an HTTPException (or 2xx and ""),
\* exc the exception that escaped the handler (a 500), user what the
\* authentication dependency resolved, body the response body.
Response(op, arg, status, detail, exc, user, body) ==
    [op |-> op, arg |-> arg, status |-> status, detail |-> detail, exc |-> exc,
     user |-> user, body |-> body]

Init ==
    /\ \/ columns = {} /\ rows = << >>
       \/ columns = LegacyColumns /\ rows = LegacyRows
    /\ pc = [p \in Procs |-> "down"]
    /\ todo = [p \in Procs |-> << >>]
    /\ pending = [p \in Procs |-> NoArg]
    /\ now = 0
    /\ issued = {}
    /\ registered = {}
    /\ resp = NoResp

(* -------------------------------- init_db ----------------------------- *)
\* on_startup -> init_db: CREATE TABLE IF NOT EXISTS users (...)
InitDbCreateTable(p) ==
    /\ pc[p] = "down"
    /\ columns' = IF columns = {} THEN AllColumns ELSE columns
    /\ pc' = [pc EXCEPT ![p] = "table_info"]
    /\ resp' = NoResp
    /\ UNCHANGED <<rows, todo, pending, now, issued, registered>>

\* columns = {row[1] for row in PRAGMA table_info(users)}, and the four
\* membership tests on that snapshot.
InitDbTableInfo(p) ==
    /\ pc[p] = "table_info"
    /\ LET missing == SelectSeq(MigrationOrder, LAMBDA c : c \notin columns)
       IN  /\ todo' = [todo EXCEPT ![p] = missing]
           /\ pc' = [pc EXCEPT ![p] = IF missing = << >> THEN "seed_check" ELSE "alter"]
    /\ resp' = NoResp
    /\ UNCHANGED <<columns, rows, pending, now, issued, registered>>

\* ALTER TABLE users ADD COLUMN c ...: fails with OperationalError (duplicate
\* column name) when the column exists by now; init_db does not catch it.
InitDbAlter(p) ==
    /\ pc[p] = "alter"
    /\ LET c == Head(todo[p])
           rest == Tail(todo[p])
       IN  IF c \in columns
           THEN /\ pc' = [pc EXCEPT ![p] = "failed"]
                /\ todo' = [todo EXCEPT ![p] = << >>]
                /\ resp' = Response("init_db", NoArg, 0, "", "OperationalError",
                                    NoUser, NoBody)
                /\ UNCHANGED <<columns, rows>>
           ELSE /\ columns' = columns \cup {c}
                /\ rows' = [i \in DOMAIN rows |->
                              [d \in columns \cup {c} |->
                                  IF d = c THEN ColumnDefault(c) ELSE rows[i][d]]]
                /\ todo' = [todo EXCEPT ![p] = rest]
                /\ pc' = [pc EXCEPT ![p] = IF rest = << >> THEN "seed_check" ELSE "alter"]
                /\ resp' = NoResp
    /\ UNCHANGED <<pending, now, issued, registered>>

\* Variant of InitDbSeedCheck that seeds on every startup.
InitDbSeedAlways(p) ==
    /\ pc[p] = "seed_check"
    /\ pc' = [pc EXCEPT ![p] = "seed_insert"]
    /\ resp' = NoResp
    /\ UNCHANGED <<columns, rows, todo, pending, now, issued, registered>>
\* if get_user("johndoe") is None:
InitDbSeedCheck(p) ==
    /\ pc[p] = "seed_check"
    /\ pc' = [pc EXCEPT ![p] = IF get_user("johndoe") = NoUser
                               THEN "seed_insert" ELSE "serving"]
    /\ resp' = NoResp
    /\ UNCHANGED <<columns, rows, todo, pending, now, issued, registered>>

\* create_user(UserCreate(username="johndoe", ...)); an IntegrityError
\* escapes init_db and the worker's startup fails.
InitDbSeedInsert(p, salt) ==
    /\ pc[p] = "seed_insert"
    /\   LET r == create_user(SeedUser, salt)
         IN  IF r.exc # ""
             THEN /\ pc' = [pc EXCEPT ![p] = "failed"]
                  /\ resp' = Response("init_db", NoArg, 0, "", r.exc, NoUser, NoBody)
                  /\ UNCHANGED <<rows, registered>>
             ELSE /\ rows' = r.rows
                  /\ registered' = registered \cup {<<SeedUser.username, SeedUser.password>>}
                  /\ pc' = [pc EXCEPT ![p] = "serving"]
                  /\ resp' = NoResp
    /\ UNCHANGED <<columns, todo, pending, now, issued>>

(* ------------------------------- /register ---------------------------- *)
\* The User the route returns (never the hash).
PublicUser(username, full_name, email, disabled) ==
    [username |-> username, full_name |-> full_name, email |-> email,
     disabled |-> disabled]

\* Variant of RegisterCheck that goes on to create_user whatever get_user
\* returned.
RegisterCheckSkipped(p, user) ==
    /\ pc[p] = "serving"
    /\ pc' = [pc EXCEPT ![p] = "reg_insert"]
    /\ pending' = [pending EXCEPT ![p] = user]
    /\ resp' = NoResp
    /\ UNCHANGED <<columns, rows, todo, now, issued, registered>>
\* existing = get_user(user.username); if existing: raise HTTPException(400)
RegisterCheck(p, user) ==
    /\ pc[p] = "serving"
    /\ IF get_user(user.username) # NoUser
       THEN /\ resp' = Response("register", user, 400, "Username already exists", "",
                                NoUser, NoBody)
            /\ UNCHANGED <<pc, pending>>
       ELSE /\ pc' = [pc EXCEPT ![p] = "reg_insert"]
            /\ pending' = [pending EXCEPT ![p] = user]
            /\ resp' = NoResp
    /\ UNCHANGED <<columns, rows, todo, now, issued, registered>>

\* create_user(user); return User(...).  The route has no handler for the
\* IntegrityError of the INSERT: it leaves the route as a 500.
RegisterInsert(p, salt) ==
    /\ pc[p] = "reg_insert"
    /\   LET user == pending[p]
             r == create_user(user, salt)
         IN  IF r.exc # ""
             THEN /\ resp' = Response("register", user, 500, "Internal Server Error",
                                      r.exc, NoUser, NoBody)
                  /\ UNCHANGED <<rows, registered>>
             ELSE /\ rows' = r.rows
                  /\ registered' = registered \cup {<<user.username, user.password>>}
                  /\ resp' = Response("register", user, 201, "", "", NoUser,
                                      PublicUser(user.username, user.full_name,
                                                 user.email, FALSE))
    /\ pc' = [pc EXCEPT ![p] = "serving"]
    /\ pending' = [pending EXCEPT ![p] = NoArg]
    /\ UNCHANGED <<columns, todo, now, issued>>

(* ------------------------------ token codec --------------------------- *)
\* HS256 over header and payload, symbolically: equal only for the same key,
\* algorithm and claims.
Sign(key, sub, exp) == <<key, ALGORITHM, sub, exp>>

\* jwt.encode(to_encode, key, algorithm=ALGORITHM); sub = None models a
\* payload without a "sub" claim.
jwt_encode(payload, key) ==
    [sub |-> payload.sub, exp |-> payload.exp, sig |-> Sign(key, payload.sub, payload.exp)]

\* A string that is not three base64url segments.
Garbage == [sub |-> None, exp |-> 0, sig |-> << >>]

\* `if expires_delta:` -- None and timedelta(0) are both falsy.
Truthy(expires_delta) == expires_delta # << >> /\ expires_delta[1] # 0

\* Variant of create_access_token whose else branch adds no lifetime.
CreateAccessTokenNoDefault(data, expires_delta) ==
    LET expire == IF Truthy(expires_delta) THEN now + expires_delta[1] ELSE now
    IN  jwt_encode([sub |-> data.sub, exp |-> expire], SECRET_KEY)
\* create_access_token(data, expires_delta) at the current time.
create_access_token(data, expires_delta) ==
    LET expire == IF Truthy(expires_delta)
                  THEN now + expires_delta[1]
                  ELSE now + DEFAULT_EXPIRE_MINUTES
    IN  jwt_encode([sub |-> data.sub, exp |-> expire], SECRET_KEY)

\* Variant of jwt_decode with verify_signature off.
DecodeNoSignatureCheck(token, key) ==
    IF token.sig = << >> THEN [exc |-> "DecodeError", sub |-> None]
    ELSE IF token.exp <= now THEN [exc |-> "ExpiredSignatureError", sub |-> None]
    ELSE [exc |-> "", sub |-> token.sub]
\* Variant of jwt_decode that still accepts a token at now = exp.
DecodeExpiredLate(token, key) ==
    IF token.sig = << >> THEN [exc |-> "DecodeError", sub |-> None]
    ELSE IF token.sig # Sign(key, token.sub, token.exp)
         THEN [exc |-> "InvalidSignatureError", sub |-> None]
    ELSE IF token.exp < now THEN [exc |-> "ExpiredSignatureError", sub |-> None]
    ELSE [exc |-> "", sub |-> token.sub]
\* Variant of jwt_decode that rejects a token a quarter of an hour early.
DecodeExpiredEarly(token, key) ==
    IF token.sig = << >> THEN [exc |-> "DecodeError", sub |-> None]
    ELSE IF token.sig # Sign(key, token.sub, token.exp)
         THEN [exc |-> "InvalidSignatureError", sub |-> None]
    ELSE IF token.exp <= now + DEFAULT_EXPIRE_MINUTES
         THEN [exc |-> "ExpiredSignatureError", sub |-> None]
    ELSE [exc |-> "", sub |-> token.sub]
\* jwt.decode(token, key, algorithms=[ALGORITHM]): structure, then the
\* signature, then exp (PyJWT rejects when exp <= now); every failure is a
\* subclass of InvalidTokenError.
jwt_decode(token, key) ==
    IF token.sig = << >> THEN [exc |-> "DecodeError", sub |-> None]
    ELSE IF token.sig # Sign(key, token.sub, token.exp)
         THEN [exc |-> "InvalidSignatureError", sub |-> None]
    ELSE IF token.exp <= now THEN [exc |-> "ExpiredSignatureError", sub |-> None]
    ELSE [exc |-> "", sub |-> token.sub]

(* ------------------------- authentication service --------------------- *)
\* Variant of authenticate_user without the verify_password test.
AuthenticateNoPasswordCheck(username, password) ==
    LET user == get_user(username)
    IN  IF user = NoUser THEN [exc |-> "", user |-> NoUser]
        ELSE [exc |-> "", user |-> user]
\* Variant of authenticate_user that returns at once for an absent user,
\* without the verification against DUMMY_HASH.
AuthenticateStepsNoDummy(username, password) ==
    LET user == get_user(username)
    IN  IF user = NoUser
        THEN [exc |-> "", user |-> NoUser, verified |-> << >>]
        ELSE LET v == verify_password(password, user.hashed_password)
             IN  [exc |-> IF v = "UnknownHashError" THEN v ELSE "",
                  user |-> IF v = "True" THEN user ELSE NoUser,
                  verified |-> <<user.hashed_password>>]
\* The body of authenticate_user, statement by statement: the user, False
\* (user = NoUser), or the exception verify raised, and in verified the
\* hashes verify_password was called with, in order.
authenticate_user_steps(username, password) ==
    LET user == get_user(username)
    IN  IF user = NoUser
        THEN LET v == verify_password(password, DUMMY_HASH)
             IN  [exc |-> IF v = "UnknownHashError" THEN v ELSE "", user |-> NoUser,
                  verified |-> <<DUMMY_HASH>>]
        ELSE LET v == verify_password(password, user.hashed_password)
             IN  IF v = "UnknownHashError"
                 THEN [exc |-> v, user |-> NoUser, verified |-> <<user.hashed_password>>]
                 ELSE IF v = "False"
                 THEN [exc |-> "", user |-> NoUser, verified |-> <<user.hashed_password>>]
                 ELSE [exc |-> "", user |-> user, verified |-> <<user.hashed_password>>]

\* Variant of authenticate_user that turns disabled users away.
AuthenticateChecksDisabled(username, password) ==
    LET r == authenticate_user_steps(username, password)
    IN  [exc |-> r.exc,
         user |-> IF r.user # NoUser /\ r.user.disabled THEN NoUser ELSE r.user]
\* authenticate_user: the user, False (user = NoUser), or the exception
\* verify raised.
authenticate_user(username, password) ==
    LET r == authenticate_user_steps(username, password)
    IN  [exc |-> r.exc, user |-> r.user]

CredentialsDetail == "Could not validate credentials"
\* Variant of get_current_user without `if user is None`.
GetCurrentUserNoLookupCheck(token) ==
    LET payload == jwt_decode(token, SECRET_KEY)
    IN  IF payload.exc # "" \/ payload.sub = None
        THEN [status |-> 401, detail |-> CredentialsDetail, user |-> NoUser]
        ELSE [status |-> 200, detail |-> "", user |-> get_user(payload.sub)]
\* Variant of get_current_user that tells an expired token apart.
GetCurrentUserExpiredDetail(token) ==
    LET payload == jwt_decode(token, SECRET_KEY)
    IN  IF payload.exc = "ExpiredSignatureError"
        THEN [status |-> 401, detail |-> "Token has expired", user |-> NoUser]
        ELSE IF payload.exc # "" \/ payload.sub = None
        THEN [status |-> 401, detail |-> CredentialsDetail, user |-> NoUser]
        ELSE LET user == get_user(payload.sub)
             IN  IF user = NoUser
                 THEN [status |-> 401, detail |-> CredentialsDetail, user |-> NoUser]
                 ELSE [status |-> 200, detail |-> "", user |-> user]
\* get_current_user: the user, or credentials_exception (401).
get_current_user(token) ==
    LET payload == jwt_decode(token, SECRET_KEY)
    IN  IF payload.exc # "" \/ payload.sub = None
        THEN [status |-> 401, detail |-> CredentialsDetail, user |-> NoUser]
        ELSE LET user == get_user(payload.sub)
             IN  IF user = NoUser
                 THEN [status |-> 401, detail |-> CredentialsDetail, user |-> NoUser]
                 ELSE [status |-> 200, detail |-> "", user |-> user]

\* Variant of get_current_active_user without the disabled test.
ActiveUserNoDisabledCheck(token) ==
    LET r == get_current_user(token)
    IN  [status |-> r.status, detail |-> r.detail, exc |-> "", user |-> r.user]
\* get_current_active_user on top of get_current_user; exc is the
\* exception that would escape (None has no attribute disabled).
get_current_active_user(token) ==
    LET r == get_current_user(token)
    IN  IF r.status # 200
        THEN [status |-> r.status, detail |-> r.detail, exc |-> "", user |-> NoUser]
        ELSE IF r.user = NoUser
        THEN [status |-> 500, detail |-> "Internal Server Error",
              exc |-> "AttributeError", user |-> NoUser]
        ELSE IF r.user.disabled
        THEN [status |-> 400, detail |-> "Inactive user", exc |-> "", user |-> NoUser]
        ELSE [status |-> 200, detail |-> "", exc |-> "", user |-> r.user]

(* --------------------------------- /token ----------------------------- *)
\* login_for_access_token
Login(p, username, password) ==
    /\ pc[p] = "serving"
    /\ LET a == authenticate_user(username, password)
           arg == [username |-> username, password |-> password]
       IN  IF a.exc # ""
           THEN /\ resp' = Response("token", arg, 500, "Internal Server Error", a.exc,
                                    NoUser, NoBody)
                /\ UNCHANGED issued
           ELSE IF a.user = NoUser
           THEN /\ resp' = Response("token", arg, 401, "Incorrect username or password",
                                    "", NoUser, NoBody)
                /\ UNCHANGED issued
           ELSE LET access_token ==
                        create_access_token([sub |-> a.user.username],
                                            <<ACCESS_TOKEN_EXPIRE_MINUTES>>)
                IN  /\ access_token \in issued \/ Cardinality(issued) < MaxTokens
                    /\ issued' = issued \cup {access_token}
                    /\ resp' = Response("token", arg, 200, "", "", a.user,
                                        [access_token |-> access_token,
                                         token_type |-> "bearer"])
    /\ UNCHANGED <<columns, rows, pc, todo, pending, now, registered>>

\* A caller of create_access_token other than the login route.
CreateAccessToken(sub, expires_delta) ==
    /\ LET t == create_access_token([sub |-> sub], expires_delta)
       IN  /\ t \in issued \/ Cardinality(issued) < MaxTokens
           /\ issued' = issued \cup {t}
           /\ resp' = Response("create_access_token",
                               [sub |-> sub, expires_delta |-> expires_delta],
                               0, "", "", NoUser, [access_token |-> t])
    /\ UNCHANGED <<columns, rows, pc, todo, pending, now, registered>>

(* ---------------------------- protected routes ------------------------ *)
\* What a client may put in the Authorization header: a token it was
\* issued, one of those with a claim or the signature altered, a token
\* signed with another key, or garbage.
AttackerKey == "attacker-key"
Tampered(t) ==
    { [t EXCEPT !.sub = u] : u \in Usernames \ {t.sub} }
    \cup { [t EXCEPT !.exp = t.exp + ACCESS_TOKEN_EXPIRE_MINUTES] }
    \cup { [t EXCEPT !.sig = Sign(AttackerKey, t.sub, t.exp)] }
Forged == { jwt_encode([sub |-> u, exp |-> now + ACCESS_TOKEN_EXPIRE_MINUTES], AttackerKey)
            : u \in Usernames }
PresentableTokens == issued \cup UNION { Tampered(t) : t \in issued } \cup Forged \cup {Garbage}

\* GET /users/me/ (response model User: the public fields)
read_users_me(p, token) ==
    /\ pc[p] = "serving"
    /\ LET r == get_current_active_user(token)
       IN  resp' = Response("read_users_me", [token |-> token], r.status, r.detail,
                            r.exc, r.user,
                            IF r.status = 200
                            THEN PublicUser(r.user.username, r.user.full_name,
                                            r.user.email, r.user.disabled)
                            ELSE NoBody)
    /\ UNCHANGED <<columns, rows, pc, todo, pending, now, issued, registered>>

\* GET /users/me/items/
read_own_items(p, token) ==
    /\ pc[p] = "serving"
    /\ LET r == get_current_active_user(token)
       IN  resp' = Response("read_own_items", [token |-> token], r.status, r.detail,
                            r.exc, r.user,
                            IF r.status = 200
                            THEN [item_id |-> "Foo", owner |-> r.user.username]
                            ELSE NoBody)
    /\ UNCHANGED <<columns, rows, pc, todo, pending, now, issued, registered>>

(* ------------------------------ environment --------------------------- *)
\* Time passes.
Tick ==
    /\ \E d \in TickSteps : now + d <= MaxTime /\ now' = now + d
    /\ resp' = NoResp
    /\ UNCHANGED <<columns, rows, pc, todo, pending, issued, registered>>

\* An operator flips a user's disabled flag directly in the table.
SetDisabled(i) ==
    /\ "disabled" \in columns
    /\ rows' = [rows EXCEPT ![i].disabled = 1 - @]
    /\ resp' = NoResp
    /\ UNCHANGED <<columns, pc, todo, pending, now, issued, registered>>

(* ---------------------------- specifications -------------------------- *)
\* The store under two workers: startup, migration, seeding, registration
\* and login, every SQL statement interleaved.
Next ==
    \/ \E p \in Procs : InitDbCreateTable(p)
    \/ \E p \in Procs : InitDbTableInfo(p)
    \/ \E p \in Procs : InitDbAlter(p)
    \/ \E p \in Procs : InitDbSeedCheck(p)
    \/ \E p \in Procs, salt \in Salts : InitDbSeedInsert(p, salt)
    \/ \E p \in Procs, user \in UserCreateInputs : RegisterCheck(p, user)
    \/ \E p \in Procs, salt \in Salts : RegisterInsert(p, salt)
    \/ \E p \in Procs, u \in Usernames, pw \in LoginPasswords : Login(p, u, pw)
    \/ \E p \in Procs, token \in issued : read_users_me(p, token)
    \/ \E p \in Procs, token \in issued : read_own_items(p, token)
    \/ \E i \in DOMAIN rows : SetDisabled(i)

Spec == Init /\ [][Next]_vars

\* The token lifecycle on one worker that has completed init_db on a new
\* database (the table created, johndoe seeded): tokens are issued over
\* time and presented, intact or altered, to the protected routes, while
\* users register and the disabled flag is flipped.
TokenProcs == {"w1"}
TokenUserCreateInputs ==
    { u \in UserCreateInputs : u.username = "alice" /\ u.password = "secret"
                               /\ u.full_name = None }
TokenSalts == {"s1"}
\* The direct create_access_token calls: for a username that may or may
\* not be registered, with no, a zero and a negative expires_delta, and
\* for a payload without "sub".
CreateAccessTokenInputs ==
    { <<"alice", ed>> : ed \in ExpiresDeltaInputs } \cup { <<None, << >> >> }
InitToken ==
    /\ columns = AllColumns
    /\ \E salt \in TokenSalts :
         rows = << [username |-> SeedUser.username, full_name |-> SeedUser.full_name,
                    email |-> SeedUser.email,
                    hashed_password |-> get_password_hash(SeedUser.password, salt),
                    disabled |-> 0] >>
    /\ pc = [p \in Procs |-> IF p \in TokenProcs THEN "serving" ELSE "down"]
    /\ todo = [p \in Procs |-> << >>]
    /\ pending = [p \in Procs |-> NoArg]
    /\ now = 0
    /\ issued = {}
    /\ registered = {<<SeedUser.username, SeedUser.password>>}
    /\ resp = NoResp

NextToken ==
    \/ \E p \in TokenProcs, user \in TokenUserCreateInputs : RegisterCheck(p, user)
    \/ \E p \in TokenProcs, salt \in TokenSalts : RegisterInsert(p, salt)
    \/ \E p \in TokenProcs, u \in Usernames, pw \in Passwords : Login(p, u, pw)
    \/ \E call \in CreateAccessTokenInputs : CreateAccessToken(call[1], call[2])
    \/ \E p \in TokenProcs, token \in PresentableTokens : read_users_me(p, token)
    \/ \E p \in TokenProcs, token \in PresentableTokens : read_own_items(p, token)
    \/ Tick
    \/ \E i \in DOMAIN rows : SetDisabled(i)

SpecToken == InitToken /\ [][NextToken]_vars
(* ================================ claims ============================== *)
Protected == {"read_users_me", "read_own_items"}
\* The token decodes: well formed, signed with SECRET_KEY, not expired.
Decodes(t) == t.sig = Sign(SECRET_KEY, t.sub, t.exp) /\ now < t.exp

\* C1: every (username, password) pair create_user stored authenticates
\* with that password: authenticate_user returns that user's record, whose
\* hashed_password differs from the plaintext, and a /token login with the
\* pair answers 200 with a token for that username, whatever registrations,
\* logins and init_db runs happened in between.
C1_StoredCredentialsAuthenticate ==
    /\ \A cr \in registered :
         LET user == get_user(cr[1])
         IN  /\ user # NoUser
             /\ user.hashed_password # cr[2]
             /\ authenticate_user(cr[1], cr[2]) = [exc |-> "", user |-> user]
    /\ (resp.op = "token" /\ <<resp.arg.username, resp.arg.password>> \in registered)
         => /\ resp.status = 200
            /\ resp.user = get_user(resp.arg.username)
            /\ resp.body.access_token.sub = resp.arg.username
            /\ resp.body.access_token \in issued

\* A registered user logs in with the registered password after another
\* user registered and both workers ran init_db.
C1_Witness ==
    /\ resp.op = "token" /\ resp.status = 200
    /\ resp.arg.username = "alice"
    /\ <<"alice", resp.arg.password>> \in registered
    /\ Len(rows) = 2
    /\ \A p \in Procs : pc[p] \in {"serving", "reg_insert"}

\* C2: authenticate_user fails for an existing username with a password
\* other than the stored one and for a username not in the store, with any
\* password; the /token login then answers 401 and returns no token.
C2_WrongCredentialsFail ==
    /\ columns = AllColumns =>
         \A u \in Usernames, pw \in Passwords :
            (\/ get_user(u) = NoUser
             \/ \E cr \in registered : cr[1] = u /\ cr[2] # pw)
            => authenticate_user(u, pw) = [exc |-> "", user |-> NoUser]
    /\ (/\ resp.op = "token"
        /\ \/ get_user(resp.arg.username) = NoUser
           \/ \E cr \in registered : cr[1] = resp.arg.username /\ cr[2] # resp.arg.password)
         => /\ resp.status = 401
            /\ resp.user = NoUser
            /\ resp.body = NoBody

\* A login for a registered user with another password was answered 401.
C2_Witness ==
    /\ resp.op = "token" /\ resp.status = 401
    /\ \E cr \in registered : cr[1] = resp.arg.username /\ cr[2] # resp.arg.password

\* C3: every outstanding token of a user u who is in the store resolves,
\* at any time before its expiry, to the record of u -- whatever other
\* tokens were issued to u or to others.
C3_IssuedTokenResolves ==
    /\ \A t \in issued :
         (t.sub \in Usernames /\ now < t.exp /\ get_user(t.sub) # NoUser)
         => get_current_user(t) = [status |-> 200, detail |-> "", user |-> get_user(t.sub)]
    /\ (/\ resp.op \in Protected
        /\ resp.arg.token \in issued
        /\ resp.arg.token.sub \in Usernames
        /\ now < resp.arg.token.exp
        /\ get_user(resp.arg.token.sub) # NoUser)
         => \/ resp.status = 200 /\ resp.user.username = resp.arg.token.sub
            \/ resp.status = 400 /\ get_user(resp.arg.token.sub).disabled

\* johndoe's login token of time 0 is accepted a quarter of an hour later,
\* while a second token of johndoe is outstanding.
C3_Witness ==
    /\ resp.op = "read_users_me" /\ resp.status = 200
    /\ resp.arg.token.sub = "johndoe"
    /\ resp.arg.token.exp = ACCESS_TOKEN_EXPIRE_MINUTES
    /\ now = DEFAULT_EXPIRE_MINUTES
    /\ Cardinality({ t \in issued : t.sub = "johndoe" }) = 2

\* C4: an issued token is rejected (401) by get_current_user whenever the
\* current time is at or past its expiry, a token issued with a negative
\* ttl included, and once that is so it stays so after every step.
C4_ExpiredTokenRejected ==
    [][ /\ \A t \in issued' :
             now' >= t.exp
             => get_current_user(t)' =
                  [status |-> 401, detail |-> CredentialsDetail, user |-> NoUser]
        /\ \A t \in issued : now >= t.exp => now' >= t.exp
        /\ (resp'.op \in Protected /\ resp'.arg.token \in issued'
            /\ now' >= resp'.arg.token.exp)
             => resp'.status = 401 ]_vars

\* johndoe's login token is presented at the very minute it expires and
\* is rejected.
C4_Witness ==
    /\ resp.op \in Protected /\ resp.status = 401
    /\ resp.arg.token \in issued
    /\ resp.arg.token.sub = "johndoe"
    /\ resp.arg.token.exp = now
    /\ get_user("johndoe") # NoUser

\* C5: get_current_user returns a user only for a token create_access_token
\* produced with the server secret: a token with an altered claim or
\* signature, or signed with another key, or malformed, is rejected.
C5_OnlyIssuedTokensResolve ==
    /\ \A t \in PresentableTokens \ issued :
         get_current_user(t) = [status |-> 401, detail |-> CredentialsDetail, user |-> NoUser]
    /\ (resp.op \in Protected /\ resp.status # 401)
         => /\ resp.arg.token \in issued
            /\ resp.arg.token.sig = Sign(SECRET_KEY, resp.arg.token.sub, resp.arg.token.exp)

\* An altered copy of a token that itself resolves was presented and
\* rejected.
C5_Witness ==
    /\ resp.op \in Protected /\ resp.status = 401
    /\ \E t \in issued :
         /\ resp.arg.token \in Tampered(t)
         /\ get_current_user(t).status = 200

\* C6: a register call for a username that is in the store is answered
\* 400 "Username already exists" and leaves every row as it was; the
\* INSERT of a register call also leaves every row as it was when the
\* username is in the store by then.
C6_DuplicateRegisterRejected ==
    [][ /\ \A p \in Procs, user \in UserCreateInputs :
             (/\ pc[p] = "serving"
              /\ get_user(user.username) # NoUser
              /\ RegisterCheck(p, user))
             => /\ resp'.op = "register"
                /\ resp'.status = 400
                /\ resp'.detail = "Username already exists"
                /\ rows' = rows
        /\ \A p \in Procs :
             (/\ pc[p] = "reg_insert"
              /\ pc'[p] = "serving"
              /\ get_user(pending[p].username) # NoUser)
             => rows' = rows ]_vars

\* A register call for a stored username, with another password than the
\* stored one, was answered 400.
C6_Witness ==
    /\ resp.op = "register" /\ resp.status = 400
    /\ \E cr \in registered : cr[1] = resp.arg.username /\ cr[2] # resp.arg.password

\* C7: the table never holds two rows with the same username, under every
\* interleaving of the workers' register calls and init_db runs.
C7_UniqueUsername ==
    \A i, j \in DOMAIN rows : rows[i].username = rows[j].username => i = j

\* Two register calls for one username both passed the existence check,
\* and the INSERT of the second was rejected.
C7_Witness ==
    /\ resp.op = "register" /\ resp.exc = "IntegrityError"
    /\ get_user(resp.arg.username) # NoUser

\* C8 (as claimed): every register call that does not create the user,
\* the one whose INSERT the unique constraint rejects included, ends with
\* 400 "Username already exists".
C8_RejectedInsertIsDuplicateUser ==
    (resp.op = "register" /\ resp.status # 201)
    => resp.status = 400 /\ resp.detail = "Username already exists"

\* C9: a protected route answers 200 only for a token that is correctly
\* signed and unexpired, whose subject is in the store with disabled false,
\* and then hands on exactly the stored record; for such a token of a
\* disabled user it answers 400 "Inactive user".
C9_ActiveUserGate ==
    resp.op \in Protected =>
      LET t == resp.arg.token
          user == get_user(t.sub)
      IN  /\ resp.status = 200
               => /\ Decodes(t)
                  /\ user # NoUser
                  /\ ~user.disabled
                  /\ resp.user = user
                  /\ resp.body = IF resp.op = "read_users_me"
                                 THEN PublicUser(user.username, user.full_name,
                                                 user.email, user.disabled)
                                 ELSE [item_id |-> "Foo", owner |-> user.username]
          /\ (Decodes(t) /\ user # NoUser /\ user.disabled)
               => resp.status = 400 /\ resp.detail = "Inactive user"
          /\ (Decodes(t) /\ user # NoUser /\ ~user.disabled)
               => resp.status = 200

\* A valid token of a user whose flag was flipped to disabled was
\* presented and answered 400.
C9_Witness ==
    /\ resp.op \in Protected /\ resp.status = 400
    /\ resp.arg.token \in issued
    /\ Decodes(resp.arg.token)

\* C10: get_current_user on a correctly signed, unexpired token whose
\* subject is not in the store fails with the 401 credentials exception;
\* no user is returned and no other error escapes.
C10_UnknownSubjectRejected ==
    /\ \A t \in PresentableTokens :
         (Decodes(t) /\ t.sub # None /\ get_user(t.sub) = NoUser)
         => get_current_user(t) = [status |-> 401, detail |-> CredentialsDetail, user |-> NoUser]
    /\ (/\ resp.op \in Protected
        /\ Decodes(resp.arg.token)
        /\ resp.arg.token.sub # None
        /\ get_user(resp.arg.token.sub) = NoUser)
         => /\ resp.status = 401
            /\ resp.detail = CredentialsDetail
            /\ resp.exc = ""
            /\ resp.user = NoUser

\* A valid token for alice, who is not registered, was presented and
\* answered 401.
C10_Witness ==
    /\ resp.op \in Protected /\ resp.status = 401
    /\ resp.arg.token \in issued
    /\ Decodes(resp.arg.token)
    /\ resp.arg.token.sub = "alice"
    /\ get_user("alice") = NoUser

\* The expires_delta values create_access_token is called with: those of
\* the direct calls and the one the login route passes.
AllExpiresDeltas == ExpiresDeltaInputs \cup {<<ACCESS_TOKEN_EXPIRE_MINUTES>>}

\* C11 (as claimed): for every call of create_access_token, with any
\* expires_delta or none, the exp written into the token is strictly
\* greater than the time of issuance.
C11_ExpAlwaysInFuture ==
    (resp.op = "create_access_token" \/ (resp.op = "token" /\ resp.status = 200))
    => resp.body.access_token.exp > now

\* C11 (amended): with no expires_delta or a positive one the exp written
\* into the token is strictly greater than the time of issuance; with a
\* negative one it is now + expires_delta, which is before it.
C11_ExpInFutureUnlessNegative ==
    /\ \A ed \in AllExpiresDeltas :
         LET t == create_access_token([sub |-> "alice"], ed)
         IN  /\ (ed = << >> \/ ed[1] > 0) => t.exp > now
             /\ (ed # << >> /\ ed[1] < 0) => t.exp = now + ed[1] /\ t.exp < now
    /\ (resp.op = "create_access_token" /\ resp.arg.expires_delta = << >>)
         => resp.body.access_token.exp > now
    /\ (resp.op = "create_access_token" /\ resp.arg.expires_delta # << >>)
         => (resp.arg.expires_delta[1] < 0 => resp.body.access_token.exp < now)
    /\ (resp.op = "token" /\ resp.status = 200)
         => resp.body.access_token.exp > now

\* A direct call without expires_delta returned a token, after time has
\* passed.
C11_Witness ==
    /\ resp.op = "create_access_token"
    /\ resp.arg.expires_delta = << >>
    /\ now > 0
    /\ resp.body.access_token.exp = now + DEFAULT_EXPIRE_MINUTES

\* C15 (as claimed): whenever the caller supplies expires_delta, zero and
\* negative durations included, the token's exp is now + expires_delta;
\* the 15-minute default is used only when none is supplied.
C15_SuppliedTtlIsUsed ==
    resp.op = "create_access_token" =>
       IF resp.arg.expires_delta # << >>
       THEN resp.body.access_token.exp = now + resp.arg.expires_delta[1]
       ELSE resp.body.access_token.exp = now + DEFAULT_EXPIRE_MINUTES

\* C12: a record whose hashed_password is the empty string, such as a row
\* that got the default '' when init_db added the column, never
\* authenticates: authenticate_user does not return it and /token issues
\* no token for it, whatever password is supplied, the empty one included.
C12_EmptyHashNeverAuthenticates ==
    /\ columns = AllColumns =>
         \A i \in DOMAIN rows, pw \in LoginPasswords :
            rows[i].hashed_password = ""
            => authenticate_user(rows[i].username, pw).user = NoUser
    /\ (/\ resp.op = "token"
        /\ get_user(resp.arg.username) # NoUser
        /\ get_user(resp.arg.username).hashed_password = "")
         => /\ resp.status # 200
            /\ resp.user = NoUser
            /\ resp.body = NoBody
            /\ \A t \in issued : t.sub # resp.arg.username

\* A login with the empty password for the migrated row, whose hash is the
\* empty string, was turned away.
C12_Witness ==
    /\ resp.op = "token"
    /\ resp.arg.password = ""
    /\ get_user(resp.arg.username) # NoUser
    /\ get_user(resp.arg.username).hashed_password = ""
    /\ resp.status # 200

\* C16: authenticate_user calls verify_password exactly once on every
\* path: with DUMMY_HASH when the username is absent, and the result is
\* then failure whatever that call returns (also for 'dummypassword'),
\* and with the stored hash when the user is present.
C16_OneVerificationPerCall ==
    columns = AllColumns =>
      \A u \in Usernames, pw \in LoginPasswords :
         LET r == authenticate_user_steps(u, pw)
             user == get_user(u)
         IN  /\ Len(r.verified) = 1
             /\ user = NoUser =>
                  /\ r.verified = <<DUMMY_HASH>>
                  /\ r.user = NoUser
                  /\ authenticate_user(u, pw) = [exc |-> "", user |-> NoUser]
             /\ user # NoUser => r.verified = <<user.hashed_password>>

\* A login for an absent username with the password DUMMY_HASH was made
\* from was answered 401.
C16_Witness ==
    /\ resp.op = "token" /\ resp.status = 401
    /\ resp.arg.password = "dummypassword"
    /\ get_user(resp.arg.username) = NoUser
    /\ verify_password(resp.arg.password, DUMMY_HASH) = "True"

\* C18 (as claimed): authenticate_user for a present user whose stored
\* hash is not a well-formed hash, the empty string included, ends as for
\* an absent user: False, and 401 at /token, never another error.
C18_MalformedHashIsOrdinaryFailure ==
    (/\ resp.op = "token"
     /\ get_user(resp.arg.username) # NoUser
     /\ get_user(resp.arg.username).hashed_password \notin WellFormedHashes)
    => /\ resp.status = 401
       /\ resp.detail = "Incorrect username or password"
       /\ resp.exc = ""

\* The worker has completed init_db.
Completed(p) == pc[p] \in {"serving", "reg_insert"}
JohndoeRows == { i \in DOMAIN rows : rows[i].username = "johndoe" }

\* C13: init_db run again on a store on which an init_db run has completed
\* changes nothing: each of its statements leaves the column set and the
\* rows as they are, the run ends without error, and the table holds
\* exactly one 'johndoe' row.
C13_InitDbIdempotent ==
    [][ \A p \in Procs :
          (/\ \E q \in Procs \ {p} : Completed(q)
           /\ pc[p] \in {"down", "table_info", "seed_check"}
           /\ pc'[p] # pc[p])
          => /\ columns = AllColumns
             /\ columns' = columns
             /\ rows' = rows
             /\ Cardinality(JohndoeRows) = 1
             /\ pc'[p] = CASE pc[p] = "down" -> "table_info"
                           [] pc[p] = "table_info" -> "seed_check"
                           [] pc[p] = "seed_check" -> "serving" ]_vars

\* Both workers have run init_db on the database of the older schema: the
\* migrated row and one johndoe row are all there is.
C13_Witness ==
    /\ \A p \in Procs : pc[p] = "serving"
    /\ columns = AllColumns
    /\ Len(rows) = 2
    /\ rows[1].username = "alice" /\ rows[1].hashed_password = ""
    /\ Cardinality(JohndoeRows) = 1

\* The steps that only read the store.
StoreReaders == {"token", "create_access_token", "read_users_me", "read_own_items"}

\* C19: no step removes a row or a column or changes the username,
\* hashed_password, email or full_name of a row; logins, token issuance,
\* the protected routes and refused registrations leave the table as it
\* is; register and init_db only append a row (or add a column); the
\* disabled flag changes only by the operator's hand.
C19_RecordsNeverModified ==
    [][ /\ columns \subseteq columns'
        /\ Len(rows') >= Len(rows)
        /\ \A i \in DOMAIN rows :
             \A c \in columns \ {"disabled"} : rows'[i][c] = rows[i][c]
        /\ resp'.op \in StoreReaders => rows' = rows /\ columns' = columns
        /\ (resp'.op = "register" /\ resp'.status # 201) => rows' = rows
        /\ (pc' # pc \/ resp' # NoResp) =>
             \A i \in DOMAIN rows :
                "disabled" \in columns => rows'[i].disabled = rows[i].disabled ]_vars

\* A user registered, beside the johndoe record, after both workers
\* started on the same database.
C19_Witness ==
    /\ resp.op = "register" /\ resp.status = 201
    /\ \A p \in Procs : Completed(p)
    /\ Len(rows) = 2
    /\ Cardinality(JohndoeRows) = 1

\* C20 (as claimed): init_db never ends in an error, and its seed INSERT
\* never runs against a table that holds 'johndoe', under every
\* interleaving with another init_db or a register call.
C20_SeedInsertNeverMeetsJohndoe ==
    /\ \A p \in Procs : pc[p] = "seed_insert" => JohndoeRows = {}
    /\ resp.op = "init_db" => resp.exc # "IntegrityError"

\* Why get_current_user turns the token down ("" when it does not): the
\* exception of jwt.decode, the missing "sub", or the missing user.
RejectionCause(t) ==
    LET payload == jwt_decode(t, SECRET_KEY)
    IN  IF payload.exc # "" THEN payload.exc
        ELSE IF payload.sub = None THEN "no sub"
        ELSE IF get_user(payload.sub) = NoUser THEN "no user"
        ELSE ""
RejectionCauses ==
    {"DecodeError", "InvalidSignatureError", "ExpiredSignatureError", "no sub", "no user"}

\* C14: whatever the cause -- undecodable token, signature mismatch,
\* elapsed expiry, no subject, subject not in the store -- get_current_user
\* rejects with one and the same outcome, and the responses of the
\* protected routes to two rejected tokens differ in nothing but the token
\* that was sent.
C14_RejectionsIdentical ==
    /\ \A t \in PresentableTokens :
         RejectionCause(t) # ""
         => get_current_user(t) =
              [status |-> 401, detail |-> CredentialsDetail, user |-> NoUser]
    /\ \A t \in PresentableTokens :
         RejectionCause(t) \in RejectionCauses \cup {""}
    /\ (resp.op \in Protected /\ RejectionCause(resp.arg.token) # "")
         => [resp EXCEPT !.arg = NoArg] =
              Response(resp.op, NoArg, 401, CredentialsDetail, "", NoUser, NoBody)

\* A signed, unexpired token for a username that is not in the store was
\* answered 401 while an expired token, a token with a foreign signature
\* and an undecodable one could be presented as well.
C14_Witness ==
    /\ resp.op \in Protected /\ resp.status = 401
    /\ RejectionCause(resp.arg.token) = "no user"
    /\ { RejectionCause(t) : t \in PresentableTokens } \ {"", "no sub"}
         = RejectionCauses \ {"no sub"}

\* C17 (as claimed): every protected request with a token issued to
\* johndoe by /token is answered 400 while johndoe's disabled flag is true.
C17_DisabledTokenAlways400 ==
    (/\ resp.op \in Protected
     /\ resp.arg.token \in issued
     /\ resp.arg.token.sub = SeedUser.username
     /\ get_user(SeedUser.username).disabled)
    => resp.status = 400

\* C17: authenticate_user and /token do not look at the disabled flag: a
\* stored user with the right password is authenticated and issued a
\* token, disabled or not; a protected request with an issued token of a
\* disabled user is answered 400 "Inactive user" while the token is
\* unexpired and 401 by get_current_user once it has expired -- never 200.
C17_DisabledLoginThenRejected ==
    /\ \A cr \in registered :
         authenticate_user(cr[1], cr[2]) = [exc |-> "", user |-> get_user(cr[1])]
    /\ (resp.op = "token" /\ <<resp.arg.username, resp.arg.password>> \in registered)
         => /\ resp.status = 200
            /\ resp.body.access_token.sub = resp.arg.username
    /\ (/\ resp.op \in Protected
        /\ resp.arg.token \in issued
        /\ resp.arg.token.sub \in Usernames
        /\ get_user(resp.arg.token.sub) # NoUser
        /\ get_user(resp.arg.token.sub).disabled)
         => IF Decodes(resp.arg.token)
            THEN resp.status = 400 /\ resp.detail = "Inactive user"
            ELSE resp.status = 401 /\ resp.detail = CredentialsDetail

\* A disabled user logged in with the right password and was issued a
\* token.
C17_Witness ==
    /\ resp.op = "token" /\ resp.status = 200
    /\ resp.user.disabled
    /\ resp.body.access_token \in issued
====
